---- MODULE Spec2Model ----
(***************************************************************************)
(* A model of the data-element search of ndaValidator: the fuzzy search    *)
(* component (findElementsByPattern, calculateRelevance,                   *)
(* handlePartialSearch, the recent-search history and the result-row       *)
(* click handler), with the data-dictionary service as its environment.    *)
(*                                                                         *)
(* JavaScript strings are sequences of one-character strings, so that      *)
(* trim, toLowerCase, startsWith and the \b...\b regular expression are    *)
(* computed rather than assumed.                                           *)
(***************************************************************************)
EXTENDS Integers, Sequences, FiniteSets, TLC

(***************************************************************************)
(* Strings                                                                 *)
(***************************************************************************)

Range(f) == {f[i] : i \in DOMAIN f}

UpperChars == <<"A", "B", "C", "D", "E", "F", "G", "H", "I", "J", "K", "L", "M",
                "N", "O", "P", "Q", "R", "S", "T", "U", "V", "W", "X", "Y", "Z">>

LowerChars == <<"a", "b", "c", "d", "e", "f", "g", "h", "i", "j", "k", "l", "m",
                "n", "o", "p", "q", "r", "s", "t", "u", "v", "w", "x", "y", "z">>

Digits == {"0", "1", "2", "3", "4", "5", "6", "7", "8", "9"}

Min(a, b) == IF a <= b THEN a ELSE b

Abs(a) == IF a < 0 THEN -a ELSE a

Max(a, b) == IF a >= b THEN a ELSE b

\* the characters of the model's strings
Alphabet == Range(UpperChars) \cup Range(LowerChars) \cup Digits \cup {"_", " ", ":", "\"", "."}

\* String.prototype.toLowerCase, character by character
LowerChar ==
    [c \in Alphabet |->
        IF c \in Range(UpperChars)
        THEN LowerChars[CHOOSE i \in 1..Len(UpperChars) : UpperChars[i] = c]
        ELSE c]

\* a string in the case it was written in
sameCase(s) == s

\* String.prototype.toLowerCase
toLowerCase(s) == [i \in 1..Len(s) |-> LowerChar[s[i]]]

\* the white space String.prototype.trim removes (the model's alphabet has
\* the blank only)
IsSpace(c) == c = " "

RECURSIVE trimStart(_)
trimStart(s) ==
    IF s # <<>> /\ IsSpace(Head(s)) THEN trimStart(Tail(s)) ELSE s

RECURSIVE trimEnd(_)
trimEnd(s) ==
    IF s # <<>> /\ IsSpace(s[Len(s)]) THEN trimEnd(SubSeq(s, 1, Len(s) - 1)) ELSE s

\* String.prototype.trim
trim(s) == trimEnd(trimStart(s))

\* String.prototype.startsWith
startsWith(s, p) == Len(p) <= Len(s) /\ SubSeq(s, 1, Len(p)) = p

\* String.prototype.endsWith
endsWith(s, p) == Len(p) <= Len(s) /\ SubSeq(s, Len(s) - Len(p) + 1, Len(s)) = p

\* String.prototype.includes
includes(s, p) ==
    \E k \in 0..(Len(s) - Len(p)) : SubSeq(s, k + 1, k + Len(p)) = p

\* Array.prototype.includes
arrayIncludes(a, x) == \E i \in 1..Len(a) : a[i] = x

\* Array.prototype.slice(0, n)
sliceTo(a, n) == SubSeq(a, 1, Min(Len(a), n))

\* \w of a JavaScript regular expression: [A-Za-z0-9_]
WordChars == Range(UpperChars) \cup Range(LowerChars) \cup Digits \cup {"_"}

IsWordChar(c) == c \in WordChars

\* \b at position p of text: between text[p] and text[p + 1], the two ends
\* of the text counting as non-word characters
WordBoundary(text, p) ==
    LET before == p >= 1 /\ IsWordChar(text[p])
        after == p + 1 <= Len(text) /\ IsWordChar(text[p + 1])
    IN before # after

\* one character of a regular expression with the flag i against one
\* character of the text: the dot stands for any character, every other
\* character of the alphabet for itself in either case
PatternCharMatches(p, c) == p = "." \/ LowerChar[p] = LowerChar[c]

\* new RegExp(`\\b${word}\\b`, "i").test(text): word is put into the
\* regular expression as it is, so that a dot in it is the operator (the
\* alphabet has no other operator of regular expressions)
containsWord(text, word) ==
    \E k \in 0..(Len(text) - Len(word)) :
        /\ WordBoundary(text, k)
        /\ WordBoundary(text, k + Len(word))
        /\ \A j \in 1..Len(word) : PatternCharMatches(word[j], text[k + j])

(***************************************************************************)
(* Values                                                                  *)
(***************************************************************************)

\* null, as the value of element and of error
Null == [null |-> TRUE]

S_tap == <<"t", "a", "p">>

\* "tap" typed with a blank before and after
S_tap_blanks == <<" ", "t", "a", "p", " ">>

S_Finger_TAP == <<"F", "i", "n", "g", "e", "r", " ", "T", "A", "P">>

S_tap_count == <<"t", "a", "p", "_", "c", "o", "u", "n", "t">>

S_TAP == <<"T", "A", "P">>

S_number_of_taps == <<"n", "u", "m", "b", "e", "r", " ", "o", "f", " ", "t", "a", "p", "s">>

S_tap_score == <<"t", "a", "p", "_", "s", "c", "o", "r", "e">>

S_taps == <<"t", "a", "p", "s">>

S_tapping == <<"t", "a", "p", "p", "i", "n", "g">>

S_t_dot_p == <<"t", ".", "p">>

S_tap_count_desc == <<"t", "a", "p", " ", "c", "o", "u", "n", "t">>

NoDescription ==
    <<"N", "o", " ", "d", "e", "s", "c", "r", "i", "p", "t", "i", "o", "n", " ",
      "a", "v", "a", "i", "l", "a", "b", "l", "e">>

NoElementsPrefix ==
    <<"N", "o", " ", "d", "a", "t", "a", " ", "e", "l", "e", "m", "e", "n", "t", "s", " ",
      "f", "o", "u", "n", "d", " ", "c", "o", "n", "t", "a", "i", "n", "i", "n", "g", " ", "\"">>

SearchErrorPrefix ==
    <<"E", "r", "r", "o", "r", " ", "s", "e", "a", "r", "c", "h", "i", "n", "g", " ",
      "f", "o", "r", " ", "e", "l", "e", "m", "e", "n", "t", "s", ":", " ">>

\* err.message of a rejected fetch
FailedToFetch ==
    <<"F", "a", "i", "l", "e", "d", " ", "t", "o", " ", "f", "e", "t", "c", "h">>

\* err.message of a response.json() that cannot parse the body
UnexpectedEnd ==
    <<"U", "n", "e", "x", "p", "e", "c", "t", "e", "d", " ", "e", "n", "d", " ", "o", "f", " ",
      "J", "S", "O", "N", " ", "i", "n", "p", "u", "t">>

\* `No data elements found containing "${searchTerm}"`
NoElementsMessage(searchTerm) == [message |-> NoElementsPrefix \o searchTerm \o <<"\"">>]

\* `Error searching for elements: ${err.message}`
SearchErrorMessage(cause) == [message |-> SearchErrorPrefix \o cause]

(***************************************************************************)
(* The data-dictionary service: what the user may type and what the        *)
(* catalog holds.  Which requests succeed is chosen by the environment at  *)
(* every response.                                                         *)
(***************************************************************************)

\* the number of structures of the catalog
NumStructures == 26

Structures == 1..NumStructures

\* what the user types into the search box
Queries == {S_tap, S_tap_blanks}

\* the value undefined of a property that an object does not have: no string
Undefined == <<"undefined">>

batchSize == 25

\* a structure is cached when it has fewer elements than this
CacheThreshold == 1000

S_item == <<"i", "t", "e", "m">>

\* an element that no query of the model matches
OtherElement == [name |-> S_item, type |-> "String", description |-> <<>>]

\* GET /datastructure/{shortName}: the dataElements of a structure;
\* structure 5 has CacheThreshold elements, structure 6 one fewer
StructureElements(shortName) ==
    CASE shortName = 1 ->
           <<[name |-> S_tap_count, type |-> "Integer", description |-> S_number_of_taps]>>
      [] shortName = 2 ->
           <<[name |-> S_tap, type |-> "", description |-> S_Finger_TAP],
             [name |-> S_tap_count, type |-> "Integer", description |-> S_tap_count_desc]>>
      [] shortName = 3 ->
           <<[name |-> Undefined, type |-> "String", description |-> S_tap]>>
      [] shortName = 4 ->
           <<[name |-> S_tap_score, type |-> "Integer", description |-> S_taps]>>
      [] shortName = 5 ->
           [k \in 1..CacheThreshold |->
               IF k = CacheThreshold
               THEN [name |-> S_taps, type |-> "Integer", description |-> S_number_of_taps]
               ELSE OtherElement]
      [] shortName = 6 ->
           [k \in 1..(CacheThreshold - 1) |-> OtherElement]
      [] shortName = NumStructures ->
           <<[name |-> S_TAP, type |-> "String", description |-> <<>>]>>
      [] OTHER -> <<>>

\* GET /datastructure?searchTerm=...: the lists the service may answer with
SearchTermLists == {<<>>, <<1>>, <<1, 2>>}

\* the answer that names every structure of the catalog: more than one batch
AllStructures == [i \in 1..NumStructures |-> i]

\* GET /datastructure?category=cognitive_task: the lists the service may
\* answer with
CategoryLists == {<<>>, <<2>>}

\* GET /dataelement/{name}: the detail object of an element
ElementDetail(name) == [kind |-> "detail", name |-> name]

\* how a fetch may end: a response with ok, a response without, a rejected
\* promise, a response whose body does not parse
FetchOutcomes == {"ok", "notok", "reject", "badjson"}

\* the sets of fetches in flight that fail: none, one (the structure of the
\* lowest identifier), all of them
FailChoices(inFlight) ==
    {{}, inFlight} \cup
    {{s} : s \in {t \in inFlight : \A u \in inFlight : t <= u}}

(***************************************************************************)
(* findElementsByPattern: the pure parts                                   *)
(***************************************************************************)

\* the identifiers of both answers as they come, [...new Set()] left out
everyShortName(list) == list

\* [...new Set(list)]: the first occurrence of every identifier, in order
RECURSIVE uniqueStructures(_)
uniqueStructures(list) ==
    IF list = <<>>
    THEN <<>>
    ELSE LET rest == uniqueStructures(SubSeq(list, 1, Len(list) - 1))
             x == list[Len(list)]
         IN IF arrayIncludes(rest, x) THEN rest ELSE Append(rest, x)

\* the batches of a loop that goes on while i <= length
makeBatchesOneMore(unique) ==
    [k \in 1..(Len(unique) \div batchSize + 1) |->
        SubSeq(unique, (k - 1) * batchSize + 1, Min(k * batchSize, Len(unique)))]

\* for (i = 0; i < length; i += batchSize) batches.push(slice(i, i + batchSize))
makeBatches(unique) ==
    [k \in 1..((Len(unique) + batchSize - 1) \div batchSize) |->
        SubSeq(unique, (k - 1) * batchSize + 1, Min(k * batchSize, Len(unique)))]

\* the second calculateRelevance, of the fuzzy component
calculateRelevance(element, searchTerm, matchType) ==
    LET base == CASE matchType = "both" -> 100
                  [] matchType = "name" -> 75
                  [] matchType = "description" -> 25
                  [] OTHER -> 0
        exact == IF toLowerCase(element.name) = searchTerm THEN 50 ELSE 0
        starts == IF startsWith(toLowerCase(element.name), searchTerm) THEN 25 ELSE 0
        lengthDiff == Abs(Len(element.name) - Len(searchTerm))
    IN base + exact + starts - Min(lengthDiff, 10)

\* searchWords: the term and its singular or plural form
searchWords(searchTerm) ==
    IF endsWith(searchTerm, <<"s">>)
    THEN {searchTerm, SubSeq(searchTerm, 1, Len(searchTerm) - 1)}
    ELSE {searchTerm, searchTerm \o <<"s">>}

\* (element.name || "").toLowerCase()
elementNameOf(element) ==
    IF element.name = Undefined THEN <<>> ELSE toLowerCase(element.name)

nameMatch(element, searchTerm) ==
    \E word \in searchWords(searchTerm) : containsWord(elementNameOf(element), word)

descMatch(element, searchTerm) ==
    \E word \in searchWords(searchTerm) :
        containsWord(toLowerCase(element.description), word)

\* nameMatch && descMatch ? "both" : nameMatch ? "name" : "description"
matchTypeOf(isNameMatch, isDescMatch) ==
    IF isNameMatch /\ isDescMatch
    THEN "both"
    ELSE IF isNameMatch THEN "name" ELSE "description"

\* the record foundElements.set stores for a matching element
matchRecord(element, shortName, searchTerm, matchType) ==
    [name |-> element.name,
     type |-> IF element.type = "" THEN "Unknown" ELSE element.type,
     description |-> IF element.description = <<>> THEN NoDescription
                     ELSE element.description,
     structure |-> shortName,
     matchType |-> matchType,
     relevance |-> calculateRelevance(element, searchTerm, matchType)]

\* an insertion that does not look for the key
mapAppend(found, record) == Append(found, record)

\* Map.prototype.set on foundElements, a Map in insertion order: a key
\* already present keeps its place and takes the new value
mapSet(found, record) ==
    IF \E i \in 1..Len(found) : found[i].name = record.name
    THEN [i \in 1..Len(found) |->
             IF found[i].name = record.name THEN record ELSE found[i]]
    ELSE Append(found, record)

\* nameMatch or descMatch for a text: some search word is in it as a word
textMatch(text, searchTerm) ==
    \E word \in searchWords(searchTerm) : containsWord(toLowerCase(text), word)

\* a matching element without a name: calculateRelevance evaluates
\* element.name.toLowerCase() and throws a TypeError
scanThrows(element, searchTerm) ==
    /\ element.name = Undefined
    /\ (nameMatch(element, searchTerm) \/ descMatch(element, searchTerm))

elementsThrow(elements, searchTerm) ==
    \E k \in 1..Len(elements) : scanThrows(elements[k], searchTerm)

\* the scan of the batch results throws
batchThrows(batchResults, searchTerm) ==
    \E k \in 1..Len(batchResults) : elementsThrow(batchResults[k].elements, searchTerm)

\* the structures of the batch results the scan goes through, or into
RECURSIVE scannedOf(_, _)
scannedOf(batchResults, searchTerm) ==
    IF batchResults = <<>>
    THEN <<>>
    ELSE <<Head(batchResults).shortName>> \o
         (IF elementsThrow(Head(batchResults).elements, searchTerm)
          THEN <<>>
          ELSE scannedOf(Tail(batchResults), searchTerm))

\* the elements for which nameMatch || descMatch: the callback of
\* elements.forEach does nothing for the others
matchingOf(elements, searchTerm) ==
    SelectSeq(elements,
              LAMBDA e : nameMatch(e, searchTerm) \/ descMatch(e, searchTerm))

\* the callback of elements.forEach for the matching elements, one after
\* the other up to the first that throws; entries and rest are the values of
\* found and matching, taken once
RECURSIVE scanMatching(_, _, _, _)
scanMatching(found, matching, shortName, searchTerm) ==
    CHOOSE map \in
        {IF rest = <<>> \/ scanThrows(Head(rest), searchTerm)
         THEN entries
         ELSE LET element == Head(rest)
                  isNameMatch == nameMatch(element, searchTerm)
                  isDescMatch == descMatch(element, searchTerm)
              IN scanMatching(mapSet(entries,
                                     matchRecord(element, shortName, searchTerm,
                                                 matchTypeOf(isNameMatch, isDescMatch))),
                              Tail(rest), shortName, searchTerm) :
         entries \in {found}, rest \in {matching}} : TRUE

\* elements.forEach of one batch result, as far as it gets
scanElements(found, elements, shortName, searchTerm) ==
    scanMatching(found, matchingOf(elements, searchTerm), shortName, searchTerm)

\* what findElementsByPattern(term) writes when it scans one element: the
\* term is lower-cased first, the record has the relevance of the element
scanOne(scanned, term) ==
    scanElements(<<>>, <<scanned>>, 0, toLowerCase(term))

\* batchResults.forEach: every result of the batch, in the order of the
\* batch, as far as it gets
RECURSIVE scanBatch(_, _, _)
scanBatch(found, batchResults, searchTerm) ==
    IF batchResults = <<>>
    THEN found
    ELSE LET next == scanElements(found, Head(batchResults).elements,
                                  Head(batchResults).shortName, searchTerm)
         IN IF elementsThrow(Head(batchResults).elements, searchTerm)
            THEN next
            ELSE scanBatch(next, Tail(batchResults), searchTerm)

\* one step of Array.prototype.sort with (a, b) => b.relevance - a.relevance:
\* record goes behind every record that does not score lower (a stable sort)
RECURSIVE insertByRelevance(_, _)
insertByRelevance(sorted, record) ==
    IF sorted = <<>>
    THEN <<record>>
    ELSE IF Head(sorted).relevance >= record.relevance
         THEN <<Head(sorted)>> \o insertByRelevance(Tail(sorted), record)
         ELSE <<record>> \o sorted

\* Array.from(foundElements.values()).sort((a, b) => b.relevance - a.relevance)
RECURSIVE sortByRelevance(_)
sortByRelevance(found) ==
    IF found = <<>>
    THEN <<>>
    ELSE insertByRelevance(sortByRelevance(SubSeq(found, 1, Len(found) - 1)),
                           found[Len(found)])

\* the promise of a structure whose catch and whose test of response.ok are
\* left out: the elements, whatever became of the fetch
batchPromiseUnaware(shortName, cache, failed) ==
    [shortName |-> shortName,
     elements |-> IF shortName \in DOMAIN cache
                  THEN cache[shortName] ELSE StructureElements(shortName)]

\* what the promise of one structure of a batch resolves to: the cached
\* elements, null for a fetch that fails, the fetched elements
batchPromise(shortName, cache, failed) ==
    IF shortName \in DOMAIN cache
    THEN [shortName |-> shortName, elements |-> cache[shortName]]
    ELSE IF shortName \in failed
         THEN Null
         ELSE [shortName |-> shortName, elements |-> StructureElements(shortName)]

\* the orders the promises of a batch of n structures settle in: that of
\* the batch, and the reverse
CompletionOrders(n) == {[k \in 1..n |-> k], [k \in 1..n |-> n + 1 - k]}

\* the promises of a batch as they settle, order[n] being the position in
\* the batch of the n-th to settle
completions(batch, cache, failed, order) ==
    [n \in 1..Len(batch) |->
        [position |-> order[n],
         value |-> batchPromise(batch[order[n]], cache, failed)]]

\* the values in the order the promises settled in
settledValues(settled) == [n \in 1..Len(settled) |-> settled[n].value]

\* Promise.all: the value of every promise at the position of the promise
promiseAll(settled) ==
    [k \in 1..Len(settled) |->
        (CHOOSE c \in Range(settled) : c.position = k).value]

\* .filter(Boolean)
filterBoolean(values) == SelectSeq(values, LAMBDA value : value # Null)

\* (await Promise.all(batchPromises)).filter(Boolean)
batchResultsOf(batch, cache, failed, order) ==
    filterBoolean(promiseAll(completions(batch, cache, failed, order)))

\* the structures of a batch that are not cached: one fetch is issued for
\* each
toFetch(batch, cache) == {s \in Range(batch) : s \notin DOMAIN cache}

\* the fetches batch.map issues, one after the other
RECURSIVE fetchesOf(_, _)
fetchesOf(batch, cache) ==
    IF batch = <<>> THEN <<>>
    ELSE (IF Head(batch) \in DOMAIN cache THEN <<>> ELSE <<Head(batch)>>) \o
         fetchesOf(Tail(batch), cache)

\* structureCache after a batch when the test is length <= 1000
cacheAfterAtMost(batch, cache, failed) ==
    LET cached == {s \in toFetch(batch, cache) \ failed :
                      Len(StructureElements(s)) <= CacheThreshold}
    IN [s \in DOMAIN cache \cup cached |->
           IF s \in DOMAIN cache THEN cache[s] ELSE StructureElements(s)]

\* structureCache after a batch: a fetched structure of fewer than
\* CacheThreshold elements is put in the cache
cacheAfter(batch, cache, failed) ==
    LET cached == {s \in toFetch(batch, cache) \ failed :
                      Len(StructureElements(s)) < CacheThreshold}
    IN [s \in DOMAIN cache \cup cached |->
           IF s \in DOMAIN cache THEN cache[s] ELSE StructureElements(s)]

\* the length the recent-search history is cut to
RecentLimit == 10

\* the updater without its slice
pushRecentUncut(prev, newTerm) == <<newTerm>> \o prev

\* the updater of setRecentSearches: (prev) => [newTerm, ...prev].slice(0, 10)
pushRecent(prev, newTerm) == sliceTo(<<newTerm>> \o prev, RecentLimit)

\* if (!recentSearches.includes(newTerm)) setRecentSearches(...): the test
\* reads the history the handler closed over (closed: the set of its
\* entries), the updater the current one
updateRecent(closed, prev, newTerm) ==
    IF newTerm \in closed THEN prev ELSE pushRecent(prev, newTerm)

(***************************************************************************)
(* The edit distance of DataElementSearch                                  *)
(***************************************************************************)

\* the table of levenshteinDistance when a substitution costs two
levenshteinNoSubstitution(str1, str2) ==
    LET track[j \in 0..Len(str2), i \in 0..Len(str1)] ==
            IF j = 0 THEN i
            ELSE IF i = 0 THEN j
            ELSE LET indicator == IF str1[i] = str2[j] THEN 0 ELSE 2
                 IN Min(Min(track[j, i - 1] + 1, track[j - 1, i] + 1),
                        track[j - 1, i - 1] + indicator)
    IN track[Len(str2), Len(str1)]

\* levenshteinDistance: track[0][i] = i, track[j][0] = j and every other
\* cell the least of left + 1, up + 1 and diagonal + indicator; the result
\* is the last cell
levenshteinDistance(str1, str2) ==
    LET track[j \in 0..Len(str2), i \in 0..Len(str1)] ==
            IF j = 0 THEN i
            ELSE IF i = 0 THEN j
            ELSE LET indicator == IF str1[i] = str2[j] THEN 0 ELSE 1
                 IN Min(Min(track[j, i - 1] + 1, track[j - 1, i] + 1),
                        track[j - 1, i - 1] + indicator)
    IN track[Len(str2), Len(str1)]

RECURSIVE split(_, _)
\* s.split(separator) for a separator of one character: the parts between
\* the separators, the empty ones too
split(s, separator) ==
    IF \A k \in 1..Len(s) : s[k] # separator
    THEN <<s>>
    ELSE LET first == CHOOSE k \in 1..Len(s) :
                          /\ s[k] = separator
                          /\ \A m \in 1..(k - 1) : s[m] # separator
         IN <<SubSeq(s, 1, first - 1)>> \o split(SubSeq(s, first + 1, Len(s)), separator)

\* s.match(/^\d+$/): one digit or more and nothing else
onlyDigits(s) == s # <<>> /\ \A k \in 1..Len(s) : s[k] \in Digits

\* the least distance of a part of the query to the parts of the name
bestPartDistance(searchPart, elementParts) ==
    CHOOSE d \in {levenshteinDistance(searchPart, elementParts[j]) : j \in 1..Len(elementParts)} :
        \A j \in 1..Len(elementParts) : d <= levenshteinDistance(searchPart, elementParts[j])

\* what a part of the query adds to the score, in hundredths: 100 for a
\* part of the name it equals, 50 / bestPartDistance for a distance of 1 or 2
partScore(searchPart, elementParts) ==
    LET distance == bestPartDistance(searchPart, elementParts)
    IN IF distance = 0 THEN 10000
       ELSE IF distance <= 2 THEN 5000 \div distance
       ELSE 0

RECURSIVE partsScore(_, _)
partsScore(searchParts, elementParts) ==
    IF searchParts = <<>> THEN 0
    ELSE partScore(Head(searchParts), elementParts)
             + partsScore(Tail(searchParts), elementParts)

\* score *= 0.1, on hundredths
tenth(score) == score \div 10

\* calculateRelevance of the search by edit distance, in hundredths of the
\* score of the code, with the early return of 1000 taken out
relevanceWithoutExactScore(element, term) ==
    LET elementName == toLowerCase(element.name)
        searchTermLower == toLowerCase(term)
        elementParts == split(elementName, "_")
        searchParts == split(searchTermLower, "_")
        parts == partsScore(searchParts, elementParts)
        prefixed == IF startsWith(elementName, searchTermLower \o <<"_">>)
                    THEN parts + 50000 ELSE parts
        numbers == IF onlyDigits(elementName) \/ onlyDigits(searchTermLower)
                   THEN tenth(prefixed) ELSE prefixed
    IN IF ~includes(elementName, searchTermLower) THEN tenth(numbers) ELSE numbers

\* calculateRelevance of the search by edit distance, in hundredths of the
\* score of the code (1000 is 100000 here, 50 / 2 * 0.1 * 0.1 is 25)
calculateRelevanceByDistance(element, term) ==
    LET elementName == toLowerCase(element.name)
        searchTermLower == toLowerCase(term)
    IN IF elementName = searchTermLower
       THEN 100000
       ELSE relevanceWithoutExactScore(element, term)

(***************************************************************************)
(* The state of the fuzzy DataElementSearch component                      *)
(***************************************************************************)

\* how many handlers (searches, result clicks) may be in flight at once
MaxHandlers == 2

Slots == 1..MaxHandlers

\* how many handler invocations (searches, result clicks) a session has
MaxInvocations == 3

\* how many handler invocations a long session goes on for
MaxLongInvocations == 2

\* how many searches a session that looks at one retrieval has
MaxRetrievalInvocations == 1

\* how far down the list of recent searches the user clicks
MaxRecentClicked == 2

VARIABLES
    searchTerm,         \* useState(""): the text of the search box
    loading,            \* useState(false)
    error,              \* useState(null)
    element,            \* useState(null)
    recentSearches,     \* useState([])
    matchingElements,   \* useState([])
    isPartialSearch,    \* useState(false)
    loadingState,       \* useState({isLoading, currentBatch, totalBatches, matchesFound})
    handlers,           \* the handler invocations in flight: where each stands,
                        \* what it closed over, its local variables
    structureFetches,   \* the structures a GET /datastructure/{shortName} was
                        \* issued for in the session
    invocationsLeft,    \* how many more handler invocations the session starts
    finished,           \* the handler invocation that returned in the last step
    latest,             \* the search started last, when it was started during the
                        \* batch retrieval of another: what it alone has written
    call,               \* the function of the components applied last, to what,
                        \* and what it returned
    home                \* HomePage: searchTerm, structures, loading, error, the
                        \* debounce timer and the requests of fetchData in flight

vars == <<searchTerm, loading, error, element, recentSearches, matchingElements,
          isPartialSearch, loadingState, handlers, structureFetches, invocationsLeft,
          finished, latest, call, home>>

\* no function applied
NoCall == [fn |-> "none"]

\* HomePage as it is mounted: useState(""), useState([]), useState(false),
\* useState(null); no timer, no request, no fetch issued
HomeAtMount ==
    [searchTerm |-> <<>>, structures |-> <<>>, loading |-> FALSE, error |-> Null,
     debounceTimer |-> Null, requests |-> <<>>, fetches |-> 0, failures |-> 0]

\* an updater that leaves loadingState as it is
keepLoading(prev) == prev

\* the updater (prev) => ({ ...prev, isLoading: false })
stopLoading(prev) == [prev EXCEPT !.isLoading = FALSE]

\* the displayed state: element, matchingElements, error, isPartialSearch
Display ==
    [element |-> element, matchingElements |-> matchingElements,
     error |-> error, isPartialSearch |-> isPartialSearch]

SetDisplay(d) ==
    /\ element' = d.element
    /\ matchingElements' = d.matchingElements
    /\ error' = d.error
    /\ isPartialSearch' = d.isPartialSearch

\* a slot with no handler in it
IdleHandler ==
    [pc |-> "idle",
     searchTerm |-> <<>>,        \* searchTerm of the render the handler closed over
     recentSearches |-> {},      \* recentSearches of that render: only
                                 \* includes() reads it, so the set of its entries
     term |-> <<>>,              \* findElementsByPattern: searchTerm (lower-cased)
     foundElements |-> <<>>,     \* findElementsByPattern: foundElements
     structureCache |-> <<>>,    \* findElementsByPattern: structureCache
     batches |-> <<>>,           \* findElementsByPattern: batches
     batchIndex |-> 0,           \* findElementsByPattern: batchIndex
     inFlight |-> {},            \* the structure fetches of the batch not yet settled
     failed |-> {},              \* those of the batch that have settled and failed
     fetched |-> <<>>,           \* the structure fetches the invocation has issued
     failures |-> {},            \* those of them that have failed
     results |-> <<>>,           \* handlePartialSearch: matchingElements (the local)
     match |-> Null,             \* the row clicked
     issued |-> {},              \* the kinds of request the invocation has issued
     discovery |-> "none",       \* how the discovery fetches ended: "ok",
                                 \* "notok" (a response not ok), "thrown"
     candidates |-> 0,           \* uniqueStructures.length
     caught |-> FALSE,           \* findElementsByPattern returned from its catch
     scanned |-> <<>>,           \* the structures whose elements the scan has
                                 \* gone through, or into, in this order
     closedRecent |-> <<>>]      \* recentSearches of the render a timer was set in

NoFinish ==
    [path |-> "none", searchTerm |-> <<>>, issued |-> {}, discovery |-> "none",
     candidates |-> 0, caught |-> FALSE, discovered |-> <<>>, scanned |-> <<>>,
     failures |-> {}, term |-> <<>>, results |-> <<>>, match |-> Null]

\* the displayed state of handlePartialSearch's opening lines
ResetDisplay ==
    [element |-> Null, matchingElements |-> <<>>, error |-> Null, isPartialSearch |-> TRUE]

NoLatest ==
    [slot |-> 0, done |-> FALSE, own |-> ResetDisplay]

Quiescent == \A i \in Slots : handlers[i].pc = "idle"

\* a new invocation takes the first free slot
FreeSlot(i) ==
    /\ invocationsLeft > 0
    /\ handlers[i].pc = "idle"
    /\ \A j \in Slots : j < i => handlers[j].pc # "idle"

Init ==
    /\ searchTerm = <<>>
    /\ loading = FALSE
    /\ error = Null
    /\ element = Null
    /\ recentSearches = <<>>
    /\ matchingElements = <<>>
    /\ isPartialSearch = FALSE
    /\ loadingState = [isLoading |-> FALSE, currentBatch |-> 0,
                       totalBatches |-> 0, matchesFound |-> 0]
    /\ handlers = [i \in Slots |-> IdleHandler]
    /\ structureFetches = {}
    /\ invocationsLeft = MaxInvocations
    /\ call = NoCall
    /\ home = HomeAtMount
    /\ finished = NoFinish
    /\ latest = NoLatest

\* the record of an invocation that returns
Finish(h, path, results) ==
    [path |-> path, searchTerm |-> h.searchTerm, issued |-> h.issued,
     discovery |-> h.discovery, candidates |-> h.candidates, caught |-> h.caught,
     discovered |-> h.foundElements, scanned |-> h.scanned,
     failures |-> h.failures, term |-> h.term,
     results |-> results, match |-> h.match]

\* the record of the search started last after a step of invocation i, own
\* being what that search alone has written to the displayed state
LatestAfter(i, own, isDone) ==
    IF latest.slot = i
    THEN [slot |-> IF isDone THEN 0 ELSE i, done |-> isDone, own |-> own]
    ELSE latest


(***************************************************************************)
(* handlePartialSearch                                                     *)
(***************************************************************************)

\* handleSearch and the opening of handlePartialSearch, run by the handler
\* of a render whose searchTerm was closedTerm and whose recentSearches was
\* closedRecent: reset the state and issue the exact lookup
StartSearch(i, closedTerm, closedRecent) ==
    /\ trim(closedTerm) # <<>>
    /\ loading' = TRUE
    /\ SetDisplay(ResetDisplay)
    /\ handlers' = [handlers EXCEPT ![i] =
           [IdleHandler EXCEPT !.pc = "exact", !.searchTerm = closedTerm,
                               !.recentSearches = Range(closedRecent), !.issued = {"exact"}]]
    /\ latest' = IF \E j \in Slots : handlers[j].pc \in {"batch", "pause"}
                  THEN [slot |-> i, done |-> FALSE, own |-> ResetDisplay]
                  ELSE NoLatest
    /\ finished' = NoFinish
    /\ UNCHANGED <<recentSearches, loadingState, structureFetches>>

\* onChange of the search box
TypeQuery(q) ==
    /\ q # searchTerm
    /\ searchTerm' = q
    /\ finished' = NoFinish
    /\ latest' = IF latest.done THEN NoLatest ELSE latest
    /\ UNCHANGED <<loading, error, element, recentSearches, matchingElements,
                   isPartialSearch, loadingState, handlers, structureFetches,
                   invocationsLeft, call, home>>

\* handleKeyDown: Enter runs handleSearch, whatever loading is
PressEnter(i) ==
    /\ FreeSlot(i)
    /\ StartSearch(i, searchTerm, recentSearches)
    /\ invocationsLeft' = invocationsLeft - 1
    /\ UNCHANGED <<call, home>>
    /\ UNCHANGED searchTerm

\* the Search button, disabled while loading or with a blank searchTerm
ClickSearch(i) ==
    /\ FreeSlot(i)
    /\ ~loading
    /\ StartSearch(i, searchTerm, recentSearches)
    /\ invocationsLeft' = invocationsLeft - 1
    /\ UNCHANGED <<call, home>>
    /\ UNCHANGED searchTerm

\* handleRecentSearch: setSearchTerm(term), then handleSearch from a timer;
\* the handleSearch the timer runs is the one of the render that was clicked
ClickRecentSearch(i, t) ==
    /\ FreeSlot(i)
    /\ arrayIncludes(recentSearches, t)
    /\ searchTerm' = t
    /\ handlers' = [handlers EXCEPT ![i] =
           [IdleHandler EXCEPT !.pc = "timer", !.searchTerm = searchTerm,
                               !.closedRecent = recentSearches]]
    /\ invocationsLeft' = invocationsLeft - 1
    /\ UNCHANGED <<call, home>>
    /\ finished' = NoFinish
    /\ latest' = IF latest.done THEN NoLatest ELSE latest
    /\ UNCHANGED <<loading, error, element, recentSearches, matchingElements,
                   isPartialSearch, loadingState, structureFetches>>

\* setTimeout(() => handleSearch(), 0) fires
TimerFires(i) ==
    /\ handlers[i].pc = "timer"
    /\ IF trim(handlers[i].searchTerm) = <<>>
       THEN /\ handlers' = [handlers EXCEPT ![i] = IdleHandler]
            /\ finished' = NoFinish
            /\ UNCHANGED <<loading, error, element, recentSearches, matchingElements,
                           isPartialSearch, loadingState, structureFetches, latest>>
       ELSE StartSearch(i, handlers[i].searchTerm, handlers[i].closedRecent)
    /\ UNCHANGED <<searchTerm, invocationsLeft, call, home>>

\* an invocation returns: its slot is free, what it did is recorded
Return(i, h, path, results, own) ==
    /\ handlers' = [handlers EXCEPT ![i] = IdleHandler]
    /\ finished' = Finish(h, path, results)
    /\ latest' = LatestAfter(i, own, TRUE)

\* a batch of the loop of findElementsByPattern starts: batchIndex (from 0)
\* is reported and the fetches of the structures not cached are issued;
\* shown is loadingState as the invocation has set it so far in this step
IssueBatch(i, h, batchIndex, shown) ==
    LET batch == h.batches[batchIndex + 1]
    IN /\ handlers' = [handlers EXCEPT ![i] =
              [h EXCEPT !.pc = "batch", !.batchIndex = batchIndex,
                        !.inFlight = h.inFlight \cup toFetch(batch, h.structureCache),
                        !.fetched = h.fetched \o fetchesOf(batch, h.structureCache),
                        !.issued = h.issued \cup
                            (IF toFetch(batch, h.structureCache) = {} THEN {}
                             ELSE {"structure"})]]
       /\ structureFetches' = structureFetches \cup toFetch(batch, h.structureCache)
       /\ loadingState' = [shown EXCEPT !.currentBatch = batchIndex + 1,
                                         !.matchesFound = Len(h.foundElements)]

\* handlePartialSearch from the return of findElementsByPattern: no match,
\* the result list, or the follow-up fetch of a single result
AfterFind(i, h, found) ==
    IF found = <<>>
    THEN /\ SetDisplay([Display EXCEPT !.error = NoElementsMessage(h.searchTerm)])
         /\ loading' = FALSE
         /\ Return(i, h, "noMatch", found,
                   [latest.own EXCEPT !.error = NoElementsMessage(h.searchTerm)])
    ELSE /\ SetDisplay([Display EXCEPT !.matchingElements = found])
         /\ IF Len(found) = 1
            THEN /\ handlers' = [handlers EXCEPT ![i] =
                        [h EXCEPT !.pc = "auto", !.results = found,
                                  !.issued = h.issued \cup {"follow"},
                                  !.inFlight = {}, !.batches = <<>>, !.batchIndex = 0,
                                  !.failed = {}, !.fetched = <<>>,
                                  !.structureCache = <<>>]]
                 /\ finished' = NoFinish
                 /\ latest' = LatestAfter(i, [latest.own EXCEPT
                                                 !.matchingElements = found], FALSE)
                 /\ UNCHANGED loading
            ELSE /\ loading' = FALSE
                 /\ Return(i, h, "partial", found,
                           [latest.own EXCEPT !.matchingElements = found])

\* the exact lookup GET /dataelement/{searchTerm.trim()} settles
ExactLookupSettles(i, outcome) ==
    LET h == handlers[i]
        name == trim(h.searchTerm)
    IN /\ h.pc = "exact"
       /\ CASE outcome = "ok" ->
                 /\ SetDisplay([Display EXCEPT !.element = ElementDetail(name),
                                               !.isPartialSearch = FALSE])
                 /\ recentSearches' = updateRecent(h.recentSearches, recentSearches, name)
                 /\ loading' = FALSE
                 /\ Return(i, h, "exactHit", <<>>,
                           [latest.own EXCEPT !.element = ElementDetail(name),
                                              !.isPartialSearch = FALSE])
                 /\ UNCHANGED <<loadingState, structureFetches>>
            [] outcome \in {"reject", "badjson"} ->
                 LET message == SearchErrorMessage(IF outcome = "reject"
                                                   THEN FailedToFetch ELSE UnexpectedEnd)
                 IN /\ SetDisplay([Display EXCEPT !.error = message])
                    /\ loading' = FALSE
                    /\ Return(i, h, "exactError", <<>>,
                              [latest.own EXCEPT !.error = message])
                    /\ UNCHANGED <<recentSearches, loadingState, structureFetches>>
            [] outcome = "notok" ->
                 \* findElementsByPattern(searchTerm.trim()) up to its first await
                 /\ handlers' = [handlers EXCEPT ![i] =
                        [h EXCEPT !.pc = "discover", !.term = toLowerCase(name),
                                  !.issued = h.issued \cup {"discovery"}]]
                 /\ loadingState' = [isLoading |-> TRUE, currentBatch |-> 0,
                                     totalBatches |-> 0, matchesFound |-> 0]
                 /\ finished' = NoFinish
                 /\ UNCHANGED <<loading, error, element, recentSearches, matchingElements,
                                isPartialSearch, structureFetches, latest>>
       /\ UNCHANGED <<searchTerm, invocationsLeft, call, home>>

\* the batch of a handler whose fetches are in flight
batchInFlight(h) ==
    IF h.pc = "batch" THEN h.batches[h.batchIndex + 1] ELSE <<>>

\* the two discovery fetches settle (Promise.all), each with its outcome and,
\* when it succeeds, its list of structures
DiscoverySettles(i, outcomes, lists) ==
    LET h == handlers[i]
        thrown == \E k \in 1..2 : outcomes[k] \in {"reject", "badjson"}
        hd == [h EXCEPT !.discovery =
                  IF thrown THEN "thrown"
                  ELSE IF \E k \in 1..2 : outcomes[k] = "notok" THEN "notok"
                  ELSE "ok"]
        flat == (IF outcomes[1] = "ok" THEN lists[1] ELSE <<>>) \o
                (IF outcomes[2] = "ok" THEN lists[2] ELSE <<>>)
        unique == uniqueStructures(flat)
        hb == [hd EXCEPT !.batches = makeBatches(unique), !.candidates = Len(unique)]
    IN /\ h.pc = "discover"
       /\ IF thrown
          THEN \* catch: return Array.from(foundElements.values())
               /\ loadingState' = stopLoading(loadingState)
               /\ AfterFind(i, [hd EXCEPT !.caught = TRUE], hd.foundElements)
               /\ UNCHANGED structureFetches
          ELSE IF makeBatches(unique) = <<>>
               THEN /\ loadingState' = stopLoading([loadingState EXCEPT
                                                        !.totalBatches = 0])
                    /\ AfterFind(i, hb, sortByRelevance(hb.foundElements))
                    /\ UNCHANGED structureFetches
               ELSE /\ IssueBatch(i, hb, 0, [loadingState EXCEPT
                                               !.totalBatches = Len(makeBatches(unique))])
                    /\ finished' = NoFinish
                    /\ UNCHANGED <<loading, error, element, matchingElements,
                                   isPartialSearch, latest>>
       /\ UNCHANGED <<searchTerm, recentSearches, invocationsLeft, call, home>>

\* the results of the batch in flight of a handler whose fetches of failed
\* fail and whose promises settle in order
resultsOfBatch(h, failed, order) ==
    batchResultsOf(h.batches[h.batchIndex + 1], h.structureCache, failed, order)

\* await Promise.all(batchPromises) is over, the fetches of failed having
\* failed and the promises having settled in order, while the fetches of
\* pending are in flight: the results are scanned
BatchResultsScanned(i, failed, order, pending) ==
    \E h \in {handlers[i]} :
    \E batchResults \in {resultsOfBatch(h, failed, order)} :
    \E found \in {scanBatch(h.foundElements, batchResults, h.term)} :
    \E hs \in {[h EXCEPT !.foundElements = found, !.inFlight = pending, !.failed = {},
                          !.failures = h.failures \cup failed,
                          !.scanned = h.scanned \o scannedOf(batchResults, h.term),
                          !.structureCache = cacheAfter(h.batches[h.batchIndex + 1],
                                                        h.structureCache, failed)]} :
    /\ IF batchThrows(batchResults, h.term)
       THEN \* catch: return Array.from(foundElements.values())
            /\ loadingState' = stopLoading(loadingState)
            /\ \E caught \in {[hs EXCEPT !.caught = TRUE]} : AfterFind(i, caught, found)
       ELSE IF h.batchIndex < Len(h.batches) - 1
       THEN \* await new Promise((resolve) => setTimeout(resolve, 20))
            /\ handlers' = [handlers EXCEPT ![i] = [hs EXCEPT !.pc = "pause"]]
            /\ finished' = NoFinish
            /\ UNCHANGED <<loading, error, element, matchingElements, isPartialSearch,
                           loadingState, latest>>
       ELSE /\ loadingState' = stopLoading(loadingState)
            /\ \E sorted \in {sortByRelevance(found)} : AfterFind(i, hs, sorted)
    /\ UNCHANGED <<searchTerm, recentSearches, structureFetches, invocationsLeft, call, home>>

\* every fetch of the batch settles, in order, those of failed with a
\* response that is not ok, a rejection or a body that does not parse, and
\* the results are scanned
BatchSettles(i, failed, order) ==
    /\ handlers[i].pc = "batch"
    /\ failed \subseteq handlers[i].inFlight
    /\ BatchResultsScanned(i, failed, order, {})

\* the pause between two batches is over: the next batch starts
PauseElapses(i) ==
    LET h == handlers[i]
    IN /\ h.pc = "pause"
       /\ IssueBatch(i, h, h.batchIndex + 1, loadingState)
       /\ finished' = NoFinish
       /\ UNCHANGED <<searchTerm, loading, error, element, recentSearches,
                      matchingElements, isPartialSearch, invocationsLeft, latest,
                      call, home>>

\* the follow-up fetch of the single result settles
AutoSelectSettles(i, outcome) ==
    LET h == handlers[i]
        name == h.results[1].name
    IN /\ h.pc = "auto"
       /\ IF outcome = "ok"
          THEN /\ SetDisplay([Display EXCEPT !.element = ElementDetail(name),
                                             !.isPartialSearch = FALSE])
               /\ recentSearches' = updateRecent(h.recentSearches, recentSearches, name)
               /\ Return(i, h, "autoHit", h.results,
                         [latest.own EXCEPT !.element = ElementDetail(name),
                                            !.isPartialSearch = FALSE])
          ELSE /\ Return(i, h, "autoMiss", h.results, latest.own)
               /\ UNCHANGED <<error, element, recentSearches, matchingElements,
                              isPartialSearch>>
       /\ loading' = FALSE
       /\ UNCHANGED <<searchTerm, loadingState, structureFetches, invocationsLeft, call, home>>

(***************************************************************************)
(* The click on a row of the result list                                   *)
(***************************************************************************)

\* onClick of row k, up to the fetch of the element
ClickResult(i, k) ==
    /\ FreeSlot(i)
    /\ isPartialSearch
    /\ k \in 1..Len(matchingElements)
    /\ searchTerm' = matchingElements[k].name
    /\ isPartialSearch' = FALSE
    /\ matchingElements' = <<>>
    /\ handlers' = [handlers EXCEPT ![i] =
           [IdleHandler EXCEPT !.pc = "select", !.searchTerm = searchTerm,
                               !.recentSearches = Range(recentSearches),
                               !.match = matchingElements[k], !.issued = {"select"}]]
    /\ invocationsLeft' = invocationsLeft - 1
    /\ UNCHANGED <<call, home>>
    /\ finished' = NoFinish
    /\ latest' = NoLatest
    /\ UNCHANGED <<loading, error, element, recentSearches, loadingState,
                   structureFetches>>

\* the fetch of the clicked element settles
SelectSettles(i, outcome) ==
    LET h == handlers[i]
        name == h.match.name
    IN /\ h.pc = "select"
       /\ IF outcome = "ok"
          THEN /\ element' = ElementDetail(name)
               /\ recentSearches' = updateRecent(h.recentSearches, recentSearches, name)
               /\ Return(i, h, "selectHit", <<>>, latest.own)
          ELSE /\ Return(i, h, "selectMiss", <<>>, latest.own)
               /\ UNCHANGED <<element, recentSearches>>
       /\ UNCHANGED <<searchTerm, loading, error, matchingElements, isPartialSearch,
                      loadingState, structureFetches, invocationsLeft, call, home>>

(***************************************************************************)
(* The specification                                                       *)
(***************************************************************************)

\* the steps of a session in which discovery names at most one batch of
\* structures
Discovery(lists1, lists2) ==
    \E i \in Slots, outcomes \in FetchOutcomes \X FetchOutcomes,
       l1 \in lists1, l2 \in lists2 :
          /\ (outcomes[1] # "ok" => l1 = <<>>)
          /\ (outcomes[2] # "ok" => l2 = <<>>)
          /\ DiscoverySettles(i, outcomes, <<l1, l2>>)

Next ==
    \/ \E q \in Queries : TypeQuery(q)
    \/ \E i \in Slots : PressEnter(i)
    \/ \E i \in Slots : ClickSearch(i)
    \/ \E i \in Slots, k \in 1..Min(MaxRecentClicked, Len(recentSearches)) :
          ClickRecentSearch(i, recentSearches[k])
    \/ \E i \in Slots : TimerFires(i)
    \/ \E i \in Slots, outcome \in FetchOutcomes : ExactLookupSettles(i, outcome)
    \/ Discovery(SearchTermLists, CategoryLists)
    \/ \E i \in Slots : \E failed \in FailChoices(handlers[i].inFlight),
                            order \in CompletionOrders(Len(batchInFlight(handlers[i]))) :
          BatchSettles(i, failed, order)
    \/ \E i \in Slots, outcome \in FetchOutcomes : AutoSelectSettles(i, outcome)
    \/ \E i \in Slots, k \in 1..Len(matchingElements) : ClickResult(i, k)
    \/ \E i \in Slots, outcome \in FetchOutcomes : SelectSettles(i, outcome)

Spec == Init /\ [][Next]_vars

(***************************************************************************)
(* A long session: the component as it stands after searches for           *)
(* different elements, each found by the exact lookup, have filled the     *)
(* recent-search history (but for one entry, or entirely)                  *)
(***************************************************************************)

DigitChars == <<"0", "1", "2", "3", "4", "5", "6", "7", "8", "9">>

\* the k-th element searched for, from 0: "e0", "e1", ...
EarlierSearch(k) == <<"e", DigitChars[k + 1]>>

\* recentSearches after the exact hits of "e0", ..., in this order
EarlierSearches(n) == [k \in 1..n |-> EarlierSearch(n - k)]

InitLongSession ==
    \E n \in {RecentLimit - 1, RecentLimit} :
        /\ searchTerm = EarlierSearch(n - 1)
        /\ loading = FALSE
        /\ error = Null
        /\ element = ElementDetail(EarlierSearch(n - 1))
        /\ recentSearches = EarlierSearches(n)
        /\ matchingElements = <<>>
        /\ isPartialSearch = FALSE
        /\ loadingState = [isLoading |-> FALSE, currentBatch |-> 0,
                           totalBatches |-> 0, matchesFound |-> 0]
        /\ handlers = [i \in Slots |-> IdleHandler]
        /\ structureFetches = {}
        /\ invocationsLeft = MaxLongInvocations
        /\ call = NoCall
        /\ home = HomeAtMount
        /\ finished = NoFinish
        /\ latest = NoLatest

SpecLongSession == InitLongSession /\ [][Next]_vars

(***************************************************************************)
(* One retrieval: a session of one search, in which discovery may name     *)
(* every structure of the catalog (two batches), among them a structure    *)
(* with an element that has no name                                        *)
(***************************************************************************)

RetrievalLists == {<<1, 2>>, <<4, 1, 2>>, <<1, 2, 3>>, AllStructures}

InitRetrieval ==
    /\ searchTerm = <<>>
    /\ loading = FALSE
    /\ error = Null
    /\ element = Null
    /\ recentSearches = <<>>
    /\ matchingElements = <<>>
    /\ isPartialSearch = FALSE
    /\ loadingState = [isLoading |-> FALSE, currentBatch |-> 0,
                       totalBatches |-> 0, matchesFound |-> 0]
    /\ handlers = [i \in Slots |-> IdleHandler]
    /\ structureFetches = {}
    /\ invocationsLeft = MaxRetrievalInvocations
    /\ call = NoCall
    /\ home = HomeAtMount
    /\ finished = NoFinish
    /\ latest = NoLatest

NextRetrieval ==
    \/ \E q \in Queries : TypeQuery(q)
    \/ \E i \in Slots : PressEnter(i)
    \/ \E i \in Slots : ClickSearch(i)
    \/ \E i \in Slots, outcome \in FetchOutcomes : ExactLookupSettles(i, outcome)
    \/ Discovery(RetrievalLists, CategoryLists)
    \/ \E i \in Slots : \E failed \in FailChoices(handlers[i].inFlight),
                            order \in CompletionOrders(Len(batchInFlight(handlers[i]))) :
          BatchSettles(i, failed, order)
    \/ \E i \in Slots : PauseElapses(i)
    \/ \E i \in Slots, outcome \in FetchOutcomes : AutoSelectSettles(i, outcome)

SpecRetrieval == InitRetrieval /\ [][NextRetrieval]_vars

\* what the service and the timers do: a fetch in flight settles, the pause
\* between two batches elapses
Settles ==
    \/ \E i \in Slots, outcome \in FetchOutcomes : ExactLookupSettles(i, outcome)
    \/ Discovery(RetrievalLists, CategoryLists)
    \/ \E i \in Slots : \E failed \in FailChoices(handlers[i].inFlight),
                            order \in CompletionOrders(Len(batchInFlight(handlers[i]))) :
          BatchSettles(i, failed, order)
    \/ \E i \in Slots : PauseElapses(i)
    \/ \E i \in Slots, outcome \in FetchOutcomes : AutoSelectSettles(i, outcome)

\* one search in which every fetch issued settles and every timer fires
SpecRetrievalFair == SpecRetrieval /\ WF_vars(Settles)

(***************************************************************************)
(* One retrieval, fetch by fetch: every structure fetch of a batch settles *)
(* in a step of its own, and Promise.all resolves when all have            *)
(***************************************************************************)

\* the structures whose fetch may fail
Unreliable == {1, 2, 3, NumStructures}

\* the fetches of a batch settle from its first to its last or from its
\* last to its first: s is the one to settle next
SettlesNext(h, s) ==
    LET batch == h.batches[h.batchIndex + 1]
        lowest == \A t \in h.inFlight : s <= t
        highest == \A t \in h.inFlight : s >= t
    IN /\ s \in h.inFlight
       /\ \/ lowest /\ batch[Len(batch)] \in h.inFlight
          \/ highest /\ batch[1] \in h.inFlight

\* one fetch: something has settled already and the rest is in flight
oneSettled(h) == h.inFlight # toFetch(h.batches[h.batchIndex + 1], h.structureCache)

\* await Promise.all(batchPromises): no promise of the batch is pending
allSettled(h) == h.inFlight = {}

\* the fetch of structure s, issued by batch.map, settles
StructureFetchSettles(i, s, outcome) ==
    LET h == handlers[i]
    IN /\ h.pc = "batch"
       /\ SettlesNext(h, s)
       /\ outcome # "ok" => s \in Unreliable
       /\ handlers' = [handlers EXCEPT ![i] =
              [h EXCEPT !.inFlight = h.inFlight \ {s},
                        !.failed = h.failed \cup (IF outcome = "ok" THEN {} ELSE {s})]]
       /\ finished' = NoFinish
       /\ UNCHANGED <<searchTerm, loading, error, element, recentSearches,
                      matchingElements, isPartialSearch, loadingState, structureFetches,
                      invocationsLeft, latest, call, home>>

\* Promise.all(batchPromises) resolves and the results are scanned
BatchCompletes(i, order) ==
    /\ handlers[i].pc = "batch"
    /\ allSettled(handlers[i])
    /\ BatchResultsScanned(i, handlers[i].failed, order, handlers[i].inFlight)

NextBatches ==
    \/ \E q \in Queries : TypeQuery(q)
    \/ \E i \in Slots : PressEnter(i)
    \/ \E i \in Slots : ClickSearch(i)
    \/ \E i \in Slots, outcome \in FetchOutcomes : ExactLookupSettles(i, outcome)
    \/ Discovery(RetrievalLists, CategoryLists)
    \/ \E i \in Slots, s \in Structures, outcome \in FetchOutcomes :
          StructureFetchSettles(i, s, outcome)
    \/ \E i \in Slots :
          \E order \in CompletionOrders(Len(batchInFlight(handlers[i]))) :
             BatchCompletes(i, order)
    \/ \E i \in Slots : PauseElapses(i)
    \/ \E i \in Slots, outcome \in FetchOutcomes : AutoSelectSettles(i, outcome)

SpecBatches == InitRetrieval /\ [][NextBatches]_vars

(***************************************************************************)
(* The functions of the components, applied to chosen arguments            *)
(***************************************************************************)

\* the state of the component, which an application of a function leaves;
\* a behaviour applies one function once, to arguments of its choice
componentVars ==
    <<searchTerm, loading, error, element, recentSearches, matchingElements,
      isPartialSearch, loadingState, handlers, structureFetches, invocationsLeft,
      finished, latest, home>>

InitFunctions ==
    /\ searchTerm = <<>>
    /\ loading = FALSE
    /\ error = Null
    /\ element = Null
    /\ recentSearches = <<>>
    /\ matchingElements = <<>>
    /\ isPartialSearch = FALSE
    /\ loadingState = [isLoading |-> FALSE, currentBatch |-> 0,
                       totalBatches |-> 0, matchesFound |-> 0]
    /\ handlers = [i \in Slots |-> IdleHandler]
    /\ structureFetches = {}
    /\ invocationsLeft = 0
    /\ finished = NoFinish
    /\ latest = NoLatest
    /\ call = NoCall
    /\ home = HomeAtMount

\* the queries and the texts (names, descriptions) of the match
MatchQueries == {S_tap, S_taps, S_TAP, S_t_dot_p, S_tap_count}

MatchTexts ==
    {<<>>, S_tap, S_taps, S_TAP, S_tapping, S_tap_count, S_number_of_taps,
     S_Finger_TAP, S_tap_count_desc, S_tap_score}

\* the strings levenshteinDistance is applied to: every string of at most
\* MaxEditLen characters of EditChars, and the pair kitten, sitting
MaxEditLen == 3

EditChars == {"a", "b"}

S_kitten == <<"k", "i", "t", "t", "e", "n">>

S_sitting == <<"s", "i", "t", "t", "i", "n", "g">>

EditStrings == UNION {[1..n -> EditChars] : n \in 0..MaxEditLen}

ApplyLevenshtein(str1, str2) ==
    /\ call = NoCall
    /\ call' = [fn |-> "levenshteinDistance", str1 |-> str1, str2 |-> str2,
                result |-> levenshteinDistance(str1, str2)]
    /\ UNCHANGED componentVars

\* n times a joined by underscores: a, a_a, a_a_a, ...
RECURSIVE Repeated(_)
Repeated(n) == IF n = 1 THEN <<"a">> ELSE Repeated(n - 1) \o <<"_", "a">>

\* the longest name of parts a
MaxParts == 7

S_tpa == <<"t", "p", "a">>

S_12 == <<"1", "2">>

S_Tap_Count == <<"T", "a", "p", "_", "C", "o", "u", "n", "t">>

\* the names and the queries of the scorers
ScoredNames ==
    {S_tap, S_TAP, S_taps, S_tap_count, S_Tap_Count, S_tap_score, S_12,
     S_tapping, S_tpa}
        \cup {Repeated(n) : n \in 1..MaxParts}

ScoringQueries ==
    {S_tap, S_TAP, S_taps, S_tpa, S_tap_count, S_Tap_Count, S_12}
        \cup {Repeated(n) : n \in 1..(MaxParts - 1)}

ApplyRelevanceByDistance(name, query) ==
    /\ call = NoCall
    /\ call' = [fn |-> "calculateRelevanceByDistance", name |-> name, query |-> query,
                result |-> calculateRelevanceByDistance([name |-> name], query)]
    /\ UNCHANGED componentVars

\* the elements and the queries of the scan of one element
ScannedElements ==
    {[name |-> name, type |-> "String", description |-> description] :
        name \in {S_tap, S_TAP, S_taps, S_tap_count, S_tap_score},
        description \in {S_Finger_TAP, S_number_of_taps, S_tapping}}

ScanQueries == {S_tap, S_TAP, S_taps, S_tap_count, S_Tap_Count}

ApplyScanOne(scanned, query) ==
    /\ call = NoCall
    /\ call' = [fn |-> "scanOne", element |-> scanned, query |-> query,
                result |-> scanOne(scanned, query)]
    /\ UNCHANGED componentVars

\* the longest list of candidates that is cut into batches
MaxCandidates == 51

\* the batches of the candidates 1, ..., n
ApplyMakeBatches(n) ==
    /\ call = NoCall
    /\ call' = [fn |-> "makeBatches", unique |-> [k \in 1..n |-> k],
                result |-> makeBatches([k \in 1..n |-> k])]
    /\ UNCHANGED componentVars

\* the match of the scan, for the query as findElementsByPattern lower-cases
\* it, against a name or a description
ApplyMatch(query, text) ==
    /\ call = NoCall
    /\ call' = [fn |-> "match", query |-> query, text |-> text,
                result |-> textMatch(text, toLowerCase(query))]
    /\ UNCHANGED componentVars

NextFunctions ==
    \/ \E n \in 0..MaxCandidates : ApplyMakeBatches(n)
    \/ \E scanned \in ScannedElements, query \in ScanQueries :
          ApplyScanOne(scanned, query)
    \/ \E name \in ScoredNames, query \in ScoringQueries :
          ApplyRelevanceByDistance(name, query)
    \/ \E str1, str2 \in EditStrings : ApplyLevenshtein(str1, str2)
    \/ \E pair \in {<<S_kitten, S_sitting>>, <<S_sitting, S_kitten>>} :
          ApplyLevenshtein(pair[1], pair[2])
    \/ \E query \in MatchQueries, text \in MatchTexts : ApplyMatch(query, text)

SpecFunctions == InitFunctions /\ [][NextFunctions]_vars

(***************************************************************************)
(* What the render shows                                                   *)
(***************************************************************************)

\* {element && (...)}: the detail of an element is shown
DetailShown == element # Null

\* {isPartialSearch && matchingElements.length > 0 && (...)}: the list of
\* results is shown
ListShown == isPartialSearch /\ matchingElements # <<>>

\* {error && (...)} with the message of handlePartialSearch's empty result
NoMatchShown == error # Null /\ startsWith(error.message, NoElementsPrefix)

\* {error && (...)} with a message that gives the cause of a failure
FailedShown == error # Null /\ startsWith(error.message, SearchErrorPrefix)

\* how many of the four are shown
ViewsShown ==
    Cardinality({v \in {"detail", "list", "noMatch", "failed"} :
                    \/ v = "detail" /\ DetailShown
                    \/ v = "list" /\ ListShown
                    \/ v = "noMatch" /\ NoMatchShown
                    \/ v = "failed" /\ FailedShown})

(***************************************************************************)
(* Properties                                                              *)
(***************************************************************************)

\* C1: when a search is started while the batch retrieval of an earlier one
\* is in flight, then once both have finished the displayed state (element,
\* matchingElements, error, isPartialSearch) is what the later search alone
\* has written: nothing of the earlier one is mixed into it
C1_LaterSearchSupersedes ==
    (Quiescent /\ latest.done) => Display = latest.own

\* C2: no step issues a structure-detail fetch for a structure that a fetch
\* was already issued for in the session
C2_OneFetchPerStructure ==
    [][\A i \in Slots :
          handlers[i].inFlight = {} =>
              handlers'[i].inFlight \cap structureFetches = {}]_vars

\* C3: a search whose exact lookup succeeds ends with the returned detail as
\* element, isPartialSearch false, no error and loading false, and has issued
\* no request but the exact lookup
C3_ExactSuccessEndsInExactHit ==
    finished.path = "exactHit" =>
        /\ element = ElementDetail(trim(finished.searchTerm))
        /\ ~isPartialSearch
        /\ error = Null
        /\ ~loading
        /\ finished.issued = {"exact"}

\* C4: a search whose exact lookup misses, whose discovery returns at least
\* one structure and whose aggregated list is empty ends with no element and
\* no result list shown, and with a message that contains the query as it
\* was submitted
C4_EmptyAggregateEndsInNoMatch ==
    (finished.path = "noMatch" /\ finished.candidates >= 1) =>
        /\ ~DetailShown
        /\ ~ListShown
        /\ NoMatchShown
        /\ includes(error.message, finished.searchTerm)

\* C5: a search whose fuzzy path produces exactly one record has issued the
\* follow-up fetch of that element when it ends, and ends with the detail of
\* that element shown and the one-entry list not shown
C5_SingleResultEndsInExactHit ==
    (finished.path \in {"autoHit", "autoMiss", "partial"} /\ Len(finished.results) = 1) =>
        /\ "follow" \in finished.issued
        /\ element = ElementDetail(finished.results[1].name)
        /\ ~ListShown
        /\ error = Null

\* C6: a search whose discovery yields no candidate structure, or has a
\* structure-list fetch that rejects or answers with a failure, ends with an
\* error that gives the cause, not with the no-match message, and shows no
\* results
C6_DiscoveryFailureEndsInFailed ==
    (/\ finished.path \in {"noMatch", "partial", "autoHit", "autoMiss"}
     /\ (finished.candidates = 0 \/ finished.discovery \in {"notok", "thrown"})) =>
        /\ FailedShown
        /\ ~NoMatchShown
        /\ ~ListShown
        /\ ~DetailShown

\* C7: the selection of a result ends with the chosen element shown: its
\* fetched detail when the fetch succeeds, the summary record of the match
\* when it does not
C7_SelectEndsInExactHit ==
    /\ finished.path = "selectHit" =>
           (element = ElementDetail(finished.match.name) /\ ~ListShown)
    /\ finished.path = "selectMiss" =>
           (element = finished.match /\ ~ListShown)

\* C8: when a search or a selection has returned and no request is in
\* flight, one of the element detail, the non-empty list, the no-match
\* message and the error with its cause is shown: the state that shows none
\* of them (element null, error null, no result list) is never reached
C8_SomeViewWhenQuiescent ==
    (Quiescent /\ finished.path # "none") => ViewsShown >= 1

\* C9: a search whose exact lookup misses and whose aggregation runs to its
\* end, with an empty list or a longer one, has its query in the
\* recent-search history when it finishes
C9_FuzzyQueryRecorded ==
    (/\ finished.path \in {"noMatch", "partial"}
     /\ finished.discovery \in {"ok", "notok"}
     /\ finished.candidates >= 1) =>
        arrayIncludes(recentSearches, trim(finished.searchTerm))

\* C10: the recent-search history never holds more than 10 entries
C10_HistoryAtMostTen == Len(recentSearches) <= RecentLimit

\* a search in a long session has just pushed its term onto the history and
\* the oldest entry has gone
C10_Witness_OldestDropped ==
    /\ finished.path \in {"exactHit", "autoHit", "selectHit"}
    /\ Len(recentSearches) = RecentLimit
    /\ recentSearches[1] \in {S_tap, S_tap_count}
    /\ ~arrayIncludes(recentSearches, EarlierSearch(0))

\* C11: the recent-search history never holds a string twice, also when
\* handlers overlap and the membership test reads the history a handler
\* closed over while the insertion goes to the current one
C11_HistoryHasNoDuplicates ==
    \A m, n \in 1..Len(recentSearches) :
        m # n => recentSearches[m] # recentSearches[n]

\* C12: when a search ends by the exact hit for a query, that query is the
\* first entry of the recent-search history, also when the history held it
\* before the search
C12_ExactHitQueryIsFirst ==
    finished.path = "exactHit" =>
        /\ recentSearches # <<>>
        /\ recentSearches[1] = trim(finished.searchTerm)

(***************************************************************************)
(* What a scan writes, told from the structures it went through            *)
(***************************************************************************)

\* the positions in a structure of the matching elements the scan gets to:
\* those with no throwing element at or before them
WritingPositions(shortName, term) ==
    LET elements == StructureElements(shortName)
    IN {j \in 1..Len(elements) :
           /\ \A k \in 1..j : ~scanThrows(elements[k], term)
           /\ nameMatch(elements[j], term) \/ descMatch(elements[j], term)}

\* the pairs <<k, j>> of the writes of a record under that name: element j
\* of the k-th structure scanned
WritesOf(scanned, term, name) ==
    {w \in UNION {{<<k, j>> : j \in WritingPositions(scanned[k], term)} :
                     k \in 1..Len(scanned)} :
        StructureElements(scanned[w[1]])[w[2]].name = name}

\* w is the last of a set of writes
IsLastWrite(w, writes) ==
    /\ w \in writes
    /\ \A v \in writes : v[1] < w[1] \/ (v[1] = w[1] /\ v[2] <= w[2])

\* the record the write w stores
WrittenRecord(scanned, term, w) ==
    LET written == StructureElements(scanned[w[1]])[w[2]]
    IN matchRecord(written, scanned[w[1]], term,
                   matchTypeOf(nameMatch(written, term), descMatch(written, term)))

\* C13: the list the aggregator returns holds every element name at most
\* once: a name found through several structures has exactly one record, the
\* one written last
C13_OneRecordPerNameTheLast ==
    finished.discovery # "none" =>
        /\ \A m, n \in 1..Len(finished.results) :
              m # n => finished.results[m].name # finished.results[n].name
        /\ \A m \in 1..Len(finished.results) :
              \E w \in WritesOf(finished.scanned, finished.term, finished.results[m].name) :
                  /\ IsLastWrite(w, WritesOf(finished.scanned, finished.term,
                                             finished.results[m].name))
                  /\ finished.results[m] = WrittenRecord(finished.scanned, finished.term, w)
        /\ \A k \in 1..Len(finished.scanned) :
              \A j \in WritingPositions(finished.scanned[k], finished.term) :
                  \E m \in 1..Len(finished.results) :
                      finished.results[m].name =
                          StructureElements(finished.scanned[k])[j].name

\* a search has returned a list with the record of tap_count from structure
\* 2, after the scan of structure 1, which holds tap_count too
C13_Witness_NameInTwoStructures ==
    /\ finished.discovery # "none"
    /\ \E k, l \in 1..Len(finished.scanned) :
          k < l /\ finished.scanned[k] = 1 /\ finished.scanned[l] = 2
    /\ \E m \in 1..Len(finished.results) :
          finished.results[m].name = S_tap_count /\ finished.results[m].structure = 2

\* the place of a name in a list of records
PlaceOf(name, records) ==
    CHOOSE m \in 1..Len(records) : records[m].name = name

\* C14: every list findElementsByPattern returns, also the one it returns
\* from its catch after an exception in the middle of the retrieval or of
\* the scan, is in the order of non-increasing relevance, and records of
\* equal relevance are in the order their names were first discovered in
C14_ReturnedListOrdered ==
    finished.discovery # "none" =>
        \A m, n \in 1..Len(finished.results) :
            m < n =>
                /\ finished.results[m].relevance >= finished.results[n].relevance
                /\ finished.results[m].relevance = finished.results[n].relevance =>
                       PlaceOf(finished.results[m].name, finished.discovered) <
                           PlaceOf(finished.results[n].name, finished.discovered)

\* what the handler h has found after its batch in flight, when the fetches
\* of failed fail and the promises settle in order
FoundAfterBatch(h, failed, order) ==
    scanBatch(h.foundElements, resultsOfBatch(h, failed, order), h.term)

\* C15: for the same discovery result, the same structures and the same
\* query, the list of results (records, match types, structures, order) does
\* not depend on the order the fetches of a batch complete in
C15_CompletionOrderIrrelevant ==
    \A i \in Slots :
        handlers[i].pc = "batch" =>
            \A failed \in FailChoices(handlers[i].inFlight) :
                \A order1, order2 \in CompletionOrders(Len(batchInFlight(handlers[i]))) :
                    /\ FoundAfterBatch(handlers[i], failed, order1) =
                           FoundAfterBatch(handlers[i], failed, order2)
                    /\ sortByRelevance(FoundAfterBatch(handlers[i], failed, order1)) =
                           sortByRelevance(FoundAfterBatch(handlers[i], failed, order2))

\* the fetches of structures 1 and 2, which both hold tap_count, have
\* completed, in either order, and the search has returned its list: tap,
\* then tap_count as structure 2 has it
C15_Witness_BatchOfSeveral ==
    /\ finished.path = "partial"
    /\ finished.scanned = <<1, 2>>
    /\ Len(finished.results) = 2
    /\ finished.results[1].name = S_tap
    /\ finished.results[2].name = S_tap_count
    /\ finished.results[2].structure = 2

\* the whole words of a text: its longest runs of letters, digits and
\* underscores
WholeWords(text) ==
    {SubSeq(text, a, b) : <<a, b>> \in
        {r \in (1..Len(text)) \X (1..Len(text)) :
            /\ r[1] <= r[2]
            /\ \A k \in r[1]..r[2] : IsWordChar(text[k])
            /\ r[1] = 1 \/ ~IsWordChar(text[r[1] - 1])
            /\ r[2] = Len(text) \/ ~IsWordChar(text[r[2] + 1])}}

\* the naive singular or plural of a query: without its last s, or with one
Counterpart(query) ==
    IF query # <<>> /\ query[Len(query)] = "s"
    THEN SubSeq(query, 1, Len(query) - 1)
    ELSE query \o <<"s">>

\* C16: a query matches a text exactly when some whole word of the text is,
\* in any case, the query or its naive singular or plural
C16_MatchIsWholeWord ==
    call.fn = "match" =>
        (call.result <=>
            \E w \in WholeWords(call.text) :
                \/ toLowerCase(w) = toLowerCase(call.query)
                \/ toLowerCase(w) = Counterpart(toLowerCase(call.query)))

\* the strings one edit away from s: a character deleted, a character
\* replaced, a character inserted
OneEdit(s) ==
    {SubSeq(s, 1, k - 1) \o SubSeq(s, k + 1, Len(s)) : k \in 1..Len(s)}
    \cup {[s EXCEPT ![k] = c] : k \in 1..Len(s), c \in EditChars}
    \cup {SubSeq(s, 1, k) \o <<c>> \o SubSeq(s, k + 1, Len(s)) :
              k \in 0..Len(s), c \in EditChars}

RECURSIVE WithinEdits(_, _)
\* the strings at most d edits away from s
WithinEdits(s, d) ==
    IF d = 0 THEN {s}
    ELSE LET near == WithinEdits(s, d - 1)
         IN near \cup UNION {OneEdit(t) : t \in near}

\* the least number of edits that turn a into b
MinEdits(a, b) ==
    CHOOSE d \in 0..Max(Len(a), Len(b)) :
        /\ b \in WithinEdits(a, d)
        /\ \A e \in 0..(d - 1) : b \notin WithinEdits(a, e)

\* C20: levenshteinDistance(a, b) is the least number of insertions,
\* deletions and substitutions of one character that turn a into b (for the
\* strings of EditStrings); it is 0 for a string and itself, the same in
\* both directions, and 3 for kitten and sitting
C20_DistanceIsMinimumEdits ==
    call.fn = "levenshteinDistance" =>
        /\ call.str1 \in EditStrings /\ call.str2 \in EditStrings =>
               call.result = MinEdits(call.str1, call.str2)
        /\ call.str1 = call.str2 => call.result = 0
        /\ call.result = levenshteinDistance(call.str2, call.str1)
        /\ {call.str1, call.str2} = {S_kitten, S_sitting} => call.result = 3

\* the distance of kitten and sitting has been computed and is 3
C20_Witness_KittenSitting ==
    /\ call.fn = "levenshteinDistance"
    /\ call.str1 = S_kitten
    /\ call.str2 = S_sitting
    /\ call.result = 3

\* C17: by edit distance, the score of an element whose name is the query
\* in any case is strictly above the score of every element whose name is
\* not, for every query
C17_ExactNameScoresHighest ==
    (/\ call.fn = "calculateRelevanceByDistance"
     /\ toLowerCase(call.name) # toLowerCase(call.query)) =>
        call.result < calculateRelevanceByDistance([name |-> call.query], call.query)

\* C18: in the list findElementsByPattern returns for a query, a record
\* whose name is the query in any case has a strictly higher relevance than
\* every record whose name is not, and comes before it
C18_ExactNameRecordFirst ==
    finished.discovery # "none" =>
        \A m, n \in 1..Len(finished.results) :
            (/\ toLowerCase(finished.results[m].name) = finished.term
             /\ toLowerCase(finished.results[n].name) # finished.term) =>
                /\ finished.results[m].relevance > finished.results[n].relevance
                /\ m < n

\* a character in its cases
CasesOf(c) == {d \in Alphabet : LowerChar[d] = LowerChar[c]}

RECURSIVE CaseVariants(_)
\* the strings that differ from query in the case of letters only
CaseVariants(query) ==
    IF query = <<>> THEN {<<>>}
    ELSE {<<c>> \o rest : c \in CasesOf(Head(query)), rest \in CaseVariants(Tail(query))}

\* C19: the relevance of an element for a query is the same for the query
\* written in any case of its letters, by edit distance and in the scan of
\* findElementsByPattern
C19_RelevanceIgnoresQueryCase ==
    /\ call.fn = "calculateRelevanceByDistance" =>
           \A variant \in CaseVariants(call.query) :
               calculateRelevanceByDistance([name |-> call.name], variant) = call.result
    /\ call.fn = "scanOne" =>
           \A variant \in CaseVariants(call.query) :
               scanOne(call.element, variant) = call.result

\* the scan has scored an element for a query written with capitals
C19_Witness_CapitalsInQuery ==
    /\ call.fn = "scanOne"
    /\ call.query = S_Tap_Count
    /\ call.element.name = S_tap_count
    /\ call.result # <<>>
    /\ call.result[1].relevance >= 150

\* C21: the fetches of structures a search has in flight are never more
\* than batchSize, and a step issues fetches of structures for a search only
\* when none of that search is in flight: a batch is not started before
\* every fetch of the one before has settled
C21_BatchesOneAfterAnother ==
    /\ [](\A i \in Slots : Cardinality(handlers[i].inFlight) <= batchSize)
    /\ [][\A i \in Slots :
             handlers'[i].inFlight \ handlers[i].inFlight # {} =>
                 handlers[i].inFlight = {}]_vars

\* the second batch of a search is in flight, after the batchSize fetches
\* of the first have settled, one of them as a failure
C21_Witness_SecondBatchInFlight ==
    \E i \in Slots :
        /\ handlers[i].pc = "batch"
        /\ handlers[i].batchIndex = 1
        /\ handlers[i].inFlight # {}
        /\ Len(handlers[i].fetched) = batchSize + 1
        /\ Len(handlers[i].scanned) = batchSize - 1

RECURSIVE Concatenated(_)
\* the lists of a list, one after the other
Concatenated(lists) ==
    IF lists = <<>> THEN <<>> ELSE Head(lists) \o Concatenated(Tail(lists))

\* C22: the batches, one after the other, are the list of candidates; every
\* batch but the last has batchSize identifiers, the last has between 1 and
\* batchSize, and an empty list of candidates has no batches
C22_BatchesAreConsecutiveSlices ==
    call.fn = "makeBatches" =>
        /\ Concatenated(call.result) = call.unique
        /\ \A k \in 1..(Len(call.result) - 1) : Len(call.result[k]) = batchSize
        /\ call.result # <<>> =>
               Len(call.result[Len(call.result)]) \in 1..batchSize
        /\ call.unique = <<>> => call.result = <<>>

\* a list of candidates has been cut into two batches of batchSize and a
\* third of one
C22_Witness_ThreeBatches ==
    /\ call.fn = "makeBatches"
    /\ Len(call.unique) = 2 * batchSize + 1
    /\ Len(call.result) = 3
    /\ Len(call.result[3]) = 1

RECURSIVE Without(_, _)
\* a list without the entries that are in a set
Without(list, set) ==
    IF list = <<>> THEN <<>>
    ELSE (IF Head(list) \in set THEN <<>> ELSE <<Head(list)>>) \o Without(Tail(list), set)

\* the results of a batch whose fetches have settled are the structures of
\* the batch whose fetch did not fail, in its order, each with all its
\* elements; a search whose scan did not throw has gone through every
\* structure but those whose fetch failed and has no record of those
FailedFetchesLeftOut ==
    /\ \A i \in Slots :
           (handlers[i].pc = "batch" /\ handlers[i].inFlight = {}) =>
               \A order \in CompletionOrders(Len(batchInFlight(handlers[i]))) :
                   LET batchResults == resultsOfBatch(handlers[i], handlers[i].failed, order)
                   IN /\ [k \in 1..Len(batchResults) |-> batchResults[k].shortName] =
                             Without(batchInFlight(handlers[i]), handlers[i].failed)
                      /\ \A k \in 1..Len(batchResults) :
                             batchResults[k].elements =
                                 StructureElements(batchResults[k].shortName)
    /\ (finished.discovery # "none" /\ ~finished.caught) =>
           /\ Range(finished.scanned) \cap finished.failures = {}
           /\ Len(finished.scanned) + Cardinality(finished.failures) = finished.candidates
           /\ \A m \in 1..Len(finished.results) :
                  finished.results[m].structure \notin finished.failures

C24_OneFetchPerStructureInSearch ==
    \A i \in Slots :
        \A m, n \in 1..Len(handlers[i].fetched) :
            m # n => handlers[i].fetched[m] # handlers[i].fetched[n]

\* the second batch of a search is in flight after the fetch of structure 1
\* failed in the first: no second fetch was issued for structure 1
C24_Witness_NoRetryAfterFailure ==
    \E i \in Slots :
        /\ handlers[i].pc = "batch"
        /\ handlers[i].batchIndex = 1
        /\ 1 \in handlers[i].failures
        /\ handlers[i].inFlight = {NumStructures}
        /\ handlers[i].fetched = AllStructures

\* C25: when a batch of a search is over, loadingState has the number of
\* that batch, the number of batches and the number of matches found up to
\* and with that batch; so it has after the last batch, when the retrieval
\* returns
C25_ProgressAfterEachBatch ==
    /\ \A i \in Slots :
           handlers[i].pc = "pause" =>
               /\ loadingState.currentBatch = handlers[i].batchIndex + 1
               /\ loadingState.totalBatches = Len(handlers[i].batches)
               /\ loadingState.matchesFound = Len(handlers[i].foundElements)
    /\ (finished.discovery # "none" /\ finished.candidates > 0 /\ ~finished.caught) =>
           loadingState.matchesFound = Len(finished.discovered)

\* C26: every entry of structureCache has fewer than CacheThreshold
\* elements and is the list of its structure; a structure of CacheThreshold
\* elements or more that the scan went through is not in the cache, and its
\* matching elements are among those found
C26_CacheHoldsSmallStructures ==
    \A i \in Slots :
        /\ \A s \in DOMAIN handlers[i].structureCache :
               /\ Len(handlers[i].structureCache[s]) < CacheThreshold
               /\ handlers[i].structureCache[s] = StructureElements(s)
        /\ \A k \in 1..Len(handlers[i].scanned) :
               LET s == handlers[i].scanned[k]
               IN Len(StructureElements(s)) >= CacheThreshold =>
                      /\ s \notin DOMAIN handlers[i].structureCache
                      /\ \A e \in 1..Len(StructureElements(s)) :
                             textMatch(StructureElements(s)[e].name, handlers[i].term) =>
                                 \E m \in 1..Len(handlers[i].foundElements) :
                                     handlers[i].foundElements[m].name =
                                         StructureElements(s)[e].name

\* between its two batches a search has scanned structure 5, of
\* CacheThreshold elements, and structure 6, of one fewer: 6 is in the cache,
\* 5 is not, and the element taps of 5 is found
C26_Witness_LargeStructureScanned ==
    \E i \in Slots :
        /\ handlers[i].pc = "pause"
        /\ 6 \in DOMAIN handlers[i].structureCache
        /\ 5 \notin DOMAIN handlers[i].structureCache
        /\ \E k \in 1..Len(handlers[i].scanned) : handlers[i].scanned[k] = 5
        /\ \E m \in 1..Len(handlers[i].foundElements) :
               /\ handlers[i].foundElements[m].name = S_taps
               /\ handlers[i].foundElements[m].structure = 5

\* C27: by edit distance and for one query, an element whose name contains
\* the query scores no lower than any element whose name does not
C27_SubstringMatchesDominate ==
    (/\ call.fn = "calculateRelevanceByDistance"
     /\ includes(toLowerCase(call.name), toLowerCase(call.query))) =>
        \A other \in ScoredNames :
            ~includes(toLowerCase(other), toLowerCase(call.query)) =>
                call.result >= calculateRelevanceByDistance([name |-> other], call.query)

\* C28: the click on an entry of the recent searches starts a search for
\* that entry: the handleSearch the click schedules looks up, trimmed, what
\* the click has put into the search box
C28_RecentClickSearchesItsEntry ==
    [][\A i \in Slots :
          (handlers[i].pc = "idle" /\ handlers'[i].pc = "timer") =>
              trim(handlers'[i].searchTerm) = trim(searchTerm')]_vars

(***************************************************************************)
(* HomePage: the structure search, its debounce and fetchData              *)
(***************************************************************************)

S_category_prefix == <<"c", "a", "t", "e", "g", "o", "r", "y", ":">>

S_category_item == S_category_prefix \o S_item

\* String.prototype.replace(/[_-]/g, "")
withoutSeparators(s) == SelectSeq(s, LAMBDA c : c \notin {"_", "-"})

\* searchTerm.replace("category:", ""): the first occurrence is taken out
RECURSIVE replaceCategory(_)
replaceCategory(s) ==
    IF startsWith(s, S_category_prefix)
    THEN SubSeq(s, Len(S_category_prefix) + 1, Len(s))
    ELSE IF s = <<>> THEN <<>> ELSE <<Head(s)>> \o replaceCategory(Tail(s))

\* the data structures the service knows
HomeCatalogue ==
    <<[shortName |-> S_tap_score, title |-> S_Finger_TAP, category |-> S_item],
      [shortName |-> S_taps, title |-> S_number_of_taps, category |-> S_tap],
      [shortName |-> S_item, title |-> S_item, category |-> S_item],
      [shortName |-> S_tap, title |-> S_tap_count_desc, category |-> S_tap]>>

\* GET /v2/datastructure?searchTerm=value: the structures whose short name
\* or title has the value in it, in the order of the catalogue
searchAnswer(value) ==
    SelectSeq(HomeCatalogue,
              LAMBDA st : \/ includes(toLowerCase(st.shortName), toLowerCase(value))
                          \/ includes(toLowerCase(st.title), toLowerCase(value)))

\* GET /datastructure?category=value
categoryAnswer(value) ==
    SelectSeq(HomeCatalogue, LAMBDA st : st.category = value)

\* the comparator of data.sort in fetchData: -1, 1 or 0
compareStructures(a, b, searchLower, normalizedSearch) ==
    LET aTitle == toLowerCase(a.title)
        bTitle == toLowerCase(b.title)
        aShortName == withoutSeparators(toLowerCase(a.shortName))
        bShortName == withoutSeparators(toLowerCase(b.shortName))
        aContainsSearch == includes(aShortName, normalizedSearch)
        bContainsSearch == includes(bShortName, normalizedSearch)
        aContainsTitle == includes(aTitle, searchLower)
        bContainsTitle == includes(bTitle, searchLower)
    IN IF aShortName = normalizedSearch THEN -1
       ELSE IF bShortName = normalizedSearch THEN 1
       ELSE IF aContainsSearch /\ ~bContainsSearch THEN -1
       ELSE IF ~aContainsSearch /\ bContainsSearch THEN 1
       ELSE IF aContainsTitle /\ ~bContainsTitle THEN -1
       ELSE IF ~aContainsTitle /\ bContainsTitle THEN 1
       ELSE 0

\* one step of data.sort: st goes behind every structure the comparator
\* does not put behind it (a stable sort)
RECURSIVE insertStructure(_, _, _, _)
insertStructure(sorted, st, searchLower, normalizedSearch) ==
    IF sorted = <<>>
    THEN <<st>>
    ELSE IF compareStructures(st, Head(sorted), searchLower, normalizedSearch) < 0
         THEN <<st>> \o sorted
         ELSE <<Head(sorted)>> \o
              insertStructure(Tail(sorted), st, searchLower, normalizedSearch)

\* data.sort((a, b) => ...)
RECURSIVE sortStructures(_, _, _)
sortStructures(data, searchLower, normalizedSearch) ==
    IF data = <<>>
    THEN <<>>
    ELSE insertStructure(sortStructures(SubSeq(data, 1, Len(data) - 1),
                                        searchLower, normalizedSearch),
                         data[Len(data)], searchLower, normalizedSearch)

\* what fetchData gives setStructures when the fetch for term succeeds: the
\* answer of the category endpoint as it is, that of the search sorted
structuresFor(term) ==
    LET isCategory == startsWith(term, S_category_prefix)
        searchValue == IF isCategory THEN replaceCategory(term) ELSE term
    IN IF isCategory
       THEN categoryAnswer(searchValue)
       ELSE sortStructures(searchAnswer(searchValue), toLowerCase(searchValue),
                           withoutSeparators(toLowerCase(searchValue)))

\* the terms typed into the search box of HomePage
HomeTerms == {S_tap, S_taps, S_category_item}

\* how many requests fetchData issues in a session
MaxHomeFetches == 3

\* setError("Error fetching data: " + err.message)
HomeError(outcome) ==
    [message |-> "Error fetching data: ",
     cause |-> IF outcome = "notok" THEN "Failed to fetch data"
               ELSE IF outcome = "reject" THEN "Failed to fetch"
               ELSE "Unexpected end of JSON input"]

\* the variables of DataElementSearch
elementSearchVars ==
    <<searchTerm, loading, error, element, recentSearches, matchingElements,
      isPartialSearch, loadingState, handlers, structureFetches, invocationsLeft,
      finished, latest, call>>

\* the effect of [searchTerm]: the cleanup of the effect before clears its
\* timer; a term that is not empty starts a timer, the empty one empties
\* the list
afterSearchTerm(term) ==
    IF term # <<>>
    THEN [home EXCEPT !.searchTerm = term, !.debounceTimer = term]
    ELSE [home EXCEPT !.searchTerm = term, !.debounceTimer = Null,
                      !.structures = <<>>]

\* onChange of the search box: setSearchTerm(term)
HomeSetSearchTerm(term) ==
    /\ term # <<>>
    /\ term # home.searchTerm
    /\ home' = afterSearchTerm(term)
    /\ UNCHANGED elementSearchVars

\* handleClearSearch: setSearchTerm("")
handleClearSearch ==
    /\ home.searchTerm # <<>>
    /\ home' = afterSearchTerm(<<>>)
    /\ UNCHANGED elementSearchVars

\* the 300 ms are over: fetchData() up to its await fetch(endpoint), with
\* the searchTerm of the render the effect belongs to
DebounceElapses ==
    /\ home.debounceTimer # Null
    /\ home.fetches < MaxHomeFetches
    /\ home' = [home EXCEPT !.debounceTimer = Null, !.loading = TRUE, !.error = Null,
                            !.requests = Append(home.requests, home.debounceTimer),
                            !.fetches = home.fetches + 1]
    /\ UNCHANGED elementSearchVars

\* the requests in flight but the k-th
requestsWithout(requests, k) ==
    SubSeq(requests, 1, k - 1) \o SubSeq(requests, k + 1, Len(requests))

\* the k-th request in flight settles: fetchData from its await to its end
HomeFetchSettles(k, outcome) ==
    /\ k \in 1..Len(home.requests)
    /\ home' = IF outcome = "ok"
               THEN [home EXCEPT !.requests = requestsWithout(home.requests, k),
                                 !.structures = structuresFor(home.requests[k]),
                                 !.loading = FALSE]
               ELSE [home EXCEPT !.requests = requestsWithout(home.requests, k),
                                 !.error = HomeError(outcome),
                                 !.failures = home.failures + 1,
                                 !.loading = FALSE]
    /\ UNCHANGED elementSearchVars

NextHomePage ==
    \/ \E term \in HomeTerms : HomeSetSearchTerm(term)
    \/ handleClearSearch
    \/ DebounceElapses
    \/ \E k \in 1..MaxHomeFetches, outcome \in FetchOutcomes : HomeFetchSettles(k, outcome)

SpecHomePage == InitFunctions /\ [][NextHomePage]_vars

\* no timer is pending and every request has settled
HomeSettled == home.debounceTimer = Null /\ home.requests = <<>>

\* C30: once every request has settled, the structures are those of the
\* latest searchTerm, and none when the term has been cleared (no fetch
\* having failed)
C30_StructuresOfLatestTerm ==
    (HomeSettled /\ home.failures = 0) =>
        home.structures = (IF home.searchTerm = <<>> THEN <<>>
                           ELSE structuresFor(home.searchTerm))

\* C29: when every fetch issued settles, a search that has started
\* finishes, and when it does loading and loadingState.isLoading are false
C29_SearchFinishesNotLoading ==
    \A i \in Slots :
        (handlers[i].pc # "idle") ~>
            (/\ handlers[i].pc = "idle"
             /\ finished.path # "none"
             /\ ~loading
             /\ ~loadingState.isLoading)

\* a search whose scan threw has finished from the catch of
\* findElementsByPattern, and nothing is loading
C29_Witness_FinishedAfterThrow ==
    /\ finished.caught
    /\ finished.path \in {"noMatch", "partial", "autoHit", "autoMiss"}
    /\ Quiescent
    /\ ~loading
    /\ ~loadingState.isLoading

====
